---- MODULE Spec2Model ----
(***************************************************************************)
(* Airtable adapter: the request executor (makeAirtableRequest, with its   *)
(* 429 retry loop and error classification) and the polling trigger        *)
(* (trigger / pollRecords, with its watermark and interval timer).         *)
(*                                                                         *)
(* Specifications of the module:                                           *)
(*   Spec         one call of makeAirtableRequest under the options that   *)
(*                execute() resolves;                                      *)
(*   TriggerSpec  one trigger instance: activation, timer ticks, poll      *)
(*                cycles, cancellation, against a table that grows;        *)
(*   ScheduleSpec trigger() arming its timer, under every polling interval. *)
(* Each step is the code that runs between two suspension points (an       *)
(* awaited HTTP call or an awaited setTimeout).                            *)
(***************************************************************************)
EXTENDS Integers, Sequences, FiniteSets, TLC

(***************************************************************************)
(* Bounds of the model.                                                    *)
(***************************************************************************)
\* largest value of options.maxRetries that is enumerated
MaxRetriesOpt == 2
\* largest value of options.retryDelay that is enumerated
MaxRetryDelayOpt == 2
\* the local clock runs 0..MaxTime
MaxTime == 1
\* poll cycles started by one trigger instance (initial poll included)
MaxCycles == 3
\* records ever created in the watched table
MaxRecords == 2
\* largest value of the pollingInterval parameter (seconds) that is enumerated
MaxPollingSeconds == 40
\* input items of one execute call
MaxItems == 2
\* parts (templates and pieces of text) of a string given to resolveValue
MaxParts == 2
\* records the Airtable table accepts before it rejects a create
MaxStore == 2

(***************************************************************************)
(* Program constants.                                                      *)
(***************************************************************************)
DefaultMaxRetries == 3
DefaultRetryDelay == 1000
RateLimited == 429
DefaultPollingInterval == 60
MinPollInterval == 30000

\* JavaScript's undefined, for a number that is absent
Undefined == -1000
\* error.response?.status of an error that carries no HTTP response
NoStatus == 0

VARIABLES
  \* ---- makeAirtableRequest ----
  maxRetries,   \* the maxRetries argument
  retryDelay,   \* the retryDelay argument
  pc,           \* "start" | "request" (awaiting axios) | "sleep" (awaiting setTimeout) | "done"
  attempt,      \* the loop variable
  lastError,    \* the lastError local
  outcomes,     \* history: the outcome of every attempt made so far
  sleeps,       \* history: the waitTime of every setTimeout scheduled
  warnings,     \* history: the waitTime named by every logger.warn
  result,       \* what the call returned or threw
  credentials,  \* the credentials argument
  sentHeaders,  \* history: the Authorization header of every axios call issued
  \* ---- trigger ----
  now,          \* the clock (new Date())
  trig,         \* "idle" | "initialPoll" | "returned" | "threw"
  timerArmed,   \* the interval timer is set and not cleared
  cancelled,    \* the cleanup function has been invoked
  lastCheck,    \* the watermark
  cycles,       \* poll cycles started so far: id -> [kind, state, data]
  table,        \* the records of the watched Airtable table, in list order
  emitted,      \* history: the batches given to emit("trigger", ...)
  errorLogs,    \* history: the number of logger.error calls
  hist,         \* history of the trigger used to state the claims
  pollingInterval,  \* the pollingInterval parameter, in seconds
  pollInterval,     \* the period setInterval was called with, in ms
  \* ---- execute ----
  execPc,       \* "idle" | "loop" | "await" (makeAirtableRequest pending) | "returned" | "threw"
  settings,     \* this.settings
  operation,    \* the operation parameter
  fields,       \* the fields parameter
  recordId,     \* the recordId parameter
  items,        \* inputData.main[0]
  execIdx,      \* position of the for-of loop in itemsToProcess
  results,      \* the results local
  request,      \* the request handed to makeAirtableRequest and not yet settled
  thrown,       \* the message of the error execute threw
  output,       \* main of the value execute returned
  store,        \* the records of the Airtable table, by id
  log,          \* history: per item of this call, the error message or <<>>
  submitted,    \* history: <<id, fields>> for every id createRecord returned
  \* ---- resolveValue ----
  tplInput,     \* the value argument: whether it is a string, and its parts
  tplContext,   \* the context argument
  tplResult,    \* the value returned
  tplDone       \* resolveValue has returned

reqVars ==
  <<maxRetries, retryDelay, pc, attempt, lastError, outcomes, sleeps, warnings, result,
    credentials, sentHeaders>>
schedVars == <<pollingInterval, pollInterval>>
trigVars ==
  <<now, trig, timerArmed, cancelled, lastCheck, cycles, table, emitted, errorLogs, hist,
    schedVars>>
tplVars == <<tplInput, tplContext, tplResult, tplDone>>
execVars ==
  <<execPc, settings, operation, fields, recordId, items, execIdx, results, request,
    thrown, output, store, log, submitted, tplVars>>
vars == <<reqVars, trigVars, execVars>>

(***************************************************************************)
(* HTTP outcomes of one axios call.                                        *)
(***************************************************************************)
Bodies == {"bodyA", "bodyB"}

FailureStatuses == {401, 403, 404, 422, RateLimited, 500}

\* the text of response.data.error.message; "" when the field is absent
ApiMessages == {"", "INVALID_VALUE_FOR_COLUMN"}

Success(b) == [kind |-> "success", status |-> 200, data |-> b, message |-> <<>>]

HttpFailure(s, m) ==
  [kind |-> "http", status |-> s, data |-> m,
   message |-> <<"Request failed with status code ", ToString(s)>>]

TransportFailure(code) ==
  [kind |-> "transport", status |-> NoStatus, data |-> "", message |-> <<code>>]

\* the value of lastError before any attempt has failed
NoError == [kind |-> "undefined", status |-> NoStatus, data |-> "", message |-> <<>>]

Outcomes ==
  {Success(b) : b \in Bodies}
    \cup {HttpFailure(s, "") : s \in FailureStatuses}
    \cup {HttpFailure(422, m) : m \in ApiMessages}
    \cup {TransportFailure(c) : c \in {"connect ECONNREFUSED", "timeout exceeded"}}

Pending == [type |-> "pending", value |-> "", error |-> <<>>]
Return(v) == [type |-> "return", value |-> v, error |-> <<>>]
Throw(name, msg) == [type |-> "throw", value |-> "", error |-> <<name>> \o msg]

(***************************************************************************)
(* execute(): the retry policy handed to makeAirtableRequest.              *)
(***************************************************************************)
MaxRetriesOptions == {Undefined} \cup (-1 .. MaxRetriesOpt)
RetryDelayOptions == 0 .. MaxRetryDelayOpt

ResolveMaxRetries(opt) == IF opt # Undefined THEN opt ELSE DefaultMaxRetries

\* options.retryDelay || 1000 : 0 and undefined are falsy
ResolveRetryDelay(opt) == IF opt # 0 /\ opt # Undefined THEN opt ELSE DefaultRetryDelay

(***************************************************************************)
(* Credentials and the Authorization header.                               *)
(***************************************************************************)
\* what getCredentials("airtable") can resolve to
NoCredentials == [present |-> FALSE, authenticationType |-> "", accessToken |-> "", apiKey |-> ""]

CredentialChoices ==
  {NoCredentials}
    \cup [present : {TRUE}, authenticationType : {"pat", "apiKey"},
          accessToken : {"", "patTok"}, apiKey : {"", "key"}]

CredentialsUsableIfPresent(c) == c.present

\* the negation of: !credentials || (!credentials.accessToken && !credentials.apiKey)
CredentialsUsable(c) == c.present /\ (c.accessToken # "" \/ c.apiKey # "")

AuthHeaderPreferApiKey(c) ==
  LET token == IF c.apiKey # "" THEN c.apiKey ELSE c.accessToken
  IN  IF c.authenticationType = "pat" THEN <<"Bearer ", token>> ELSE <<token>>

\* makeAirtableRequest: token = accessToken || apiKey; "Bearer " + token for a PAT
AuthHeader(c) ==
  LET token == IF c.accessToken # "" THEN c.accessToken ELSE c.apiKey
  IN  IF c.authenticationType = "pat" THEN <<"Bearer ", token>> ELSE <<token>>

\* pollRecords: the same two expressions
PollAuthHeader(c) ==
  LET token == IF c.accessToken # "" THEN c.accessToken ELSE c.apiKey
  IN  IF c.authenticationType = "pat" THEN <<"Bearer ", token>> ELSE <<token>>

(***************************************************************************)
(* makeAirtableRequest                                                     *)
(***************************************************************************)
WaitTimeOneIndexed(delay, att) == delay * (2 ^ (att + 1))

\* retryDelay * Math.pow(2, attempt)
WaitTime(delay, att) == delay * (2 ^ att)

LoopContinuesOnceMore(att, max) == att <= max + 1

\* the loop test: attempt <= maxRetries
LoopContinues(att, max) == att <= max

ShouldRetryAnyStatus(err, att, max) == att < max

ShouldRetryOnceMore(err, att, max) == err.status = RateLimited /\ att <= max

\* error.response?.status === 429 && attempt < maxRetries
ShouldRetry(err, att, max) == err.status = RateLimited /\ att < max

\* error.response?.status !== 429 : leave the loop
ShouldBreak(err) == err.status # RateLimited

RecordErrorKeepFirst(previous, err) == IF previous = NoError THEN err ELSE previous

\* lastError = error
RecordError(previous, err) == err

ReturnValueStatusText(response) == "OK"

\* return response.data
ReturnValue(response) == response.data

\* the if / else-if chain that follows the loop
Classify(err) ==
  IF err = NoError
    THEN Throw("TypeError", <<"Cannot read properties of undefined">>)
  ELSE IF err.status = 401
    THEN Throw("Error", <<"Invalid Airtable credentials. Please check your token.">>)
  ELSE IF err.status = 403
    THEN Throw("Error", <<"Access forbidden. Check your token permissions.">>)
  ELSE IF err.status = 404
    THEN Throw("Error", <<"Resource not found. Check your base ID, table name, or record ID.">>)
  ELSE IF err.status = 422
    THEN Throw("Error", <<"Invalid request: ",
                          IF err.data # "" THEN err.data ELSE "Unknown error">>)
  ELSE Throw("Error", <<"Airtable API error: ">> \o err.message)

ReqInit ==
  /\ \E m \in MaxRetriesOptions : maxRetries = ResolveMaxRetries(m)
  /\ \E d \in RetryDelayOptions : retryDelay = ResolveRetryDelay(d)
  /\ pc = "start"
  /\ attempt = 0
  /\ lastError = NoError
  /\ outcomes = <<>>
  /\ sleeps = <<>>
  /\ warnings = <<>>
  /\ result = Pending
  /\ credentials \in {c \in CredentialChoices : CredentialsUsable(c)}
  /\ sentHeaders = <<>>

\* entry of the function up to the first await: the loop test for attempt 0
Call ==
  /\ pc = "start"
  /\ IF LoopContinues(0, maxRetries)
       THEN /\ pc' = "request"
            /\ result' = result
            /\ sentHeaders' = Append(sentHeaders, AuthHeader(credentials))
       ELSE /\ pc' = "done"
            /\ result' = Classify(lastError)
            /\ sentHeaders' = sentHeaders
  /\ UNCHANGED <<maxRetries, retryDelay, attempt, lastError, outcomes, sleeps, warnings,
                 credentials>>
  /\ UNCHANGED <<trigVars, execVars>>

\* the awaited axios call resolves with a 2xx response
RespondSuccess ==
  /\ pc = "request"
  /\ \E o \in Outcomes :
       /\ o.kind = "success"
       /\ outcomes' = Append(outcomes, o)
       /\ result' = Return(ReturnValue(o))
  /\ pc' = "done"
  /\ UNCHANGED <<maxRetries, retryDelay, attempt, lastError, sleeps, warnings,
                 credentials, sentHeaders>>
  /\ UNCHANGED <<trigVars, execVars>>

\* the awaited axios call rejects: the catch block, up to the next await or the throw
RespondFailure ==
  /\ pc = "request"
  /\ \E o \in Outcomes :
       /\ o.kind # "success"
       /\ outcomes' = Append(outcomes, o)
       /\ lastError' = RecordError(lastError, o)
       /\ IF ShouldRetry(o, attempt, maxRetries)
            THEN /\ warnings' = Append(warnings, WaitTime(retryDelay, attempt))
                 /\ sleeps' = Append(sleeps, WaitTime(retryDelay, attempt))
                 /\ pc' = "sleep"
                 /\ UNCHANGED <<attempt, result>>
          ELSE IF ShouldBreak(o)
            THEN /\ pc' = "done"
                 /\ result' = Classify(RecordError(lastError, o))
                 /\ UNCHANGED <<attempt, sleeps, warnings>>
          ELSE \* a 429 on the last attempt: attempt++ ends the loop
                 /\ attempt' = attempt + 1
                 /\ IF LoopContinues(attempt + 1, maxRetries)
                      THEN pc' = "request" /\ result' = result
                      ELSE pc' = "done" /\ result' = Classify(RecordError(lastError, o))
                 /\ UNCHANGED <<sleeps, warnings>>
  /\ sentHeaders' = IF pc' = "request"
                      THEN Append(sentHeaders, AuthHeader(credentials))
                      ELSE sentHeaders
  /\ UNCHANGED <<maxRetries, retryDelay, credentials>>
  /\ UNCHANGED <<trigVars, execVars>>

\* the backoff timer fires: continue, attempt++, the loop test, the next axios call
Wake ==
  /\ pc = "sleep"
  /\ attempt' = attempt + 1
  /\ IF LoopContinues(attempt + 1, maxRetries)
       THEN /\ pc' = "request"
            /\ result' = result
            /\ sentHeaders' = Append(sentHeaders, AuthHeader(credentials))
       ELSE /\ pc' = "done"
            /\ result' = Classify(lastError)
            /\ sentHeaders' = sentHeaders
  /\ UNCHANGED <<maxRetries, retryDelay, lastError, outcomes, sleeps, warnings,
                 credentials>>
  /\ UNCHANGED <<trigVars, execVars>>

(***************************************************************************)
(* trigger / pollRecords                                                   *)
(***************************************************************************)
\* new Date(record.createdTime): an ISO-8601 time is written as its instant
DateParse(createdTime) == createdTime

IsNewOrEqual(record, watermark) == DateParse(record.createdTime) >= watermark

\* recordTime > lastCheck
IsNew(record, watermark) == DateParse(record.createdTime) > watermark

\* the object built for one new record
Project(record) ==
  [json |-> [recordId |-> record.id, fields |-> record.fields,
             createdTime |-> record.createdTime]]

ProjectAll(records) == [i \in 1 .. Len(records) |-> Project(records[i])]

\* response.data.records || []
RecordsOf(data) == IF data.hasRecords THEN data.records ELSE <<>>

InitialWatermarkEpoch(t) == 0

\* let lastCheck = new Date()
InitialWatermark(t) == t

WatermarkOnSuccessKept(watermark, t) == watermark

\* lastCheck = new Date(), after the filter
WatermarkOnSuccess(watermark, t) == t

WatermarkOnErrorAdvanced(watermark, t) == t

\* the catch block of pollRecords leaves lastCheck alone
WatermarkOnError(watermark, t) == watermark

TimerAfterCycleErrorStopped(armed) == FALSE

\* the catch blocks around pollRecords() only log
TimerAfterCycleError(armed) == armed

ClearIntervalForgotten(armed) == armed

\* clearInterval(intervalId)
ClearInterval(armed) == FALSE

\* the axios.get calls of one call of pollRecords()
PollRequests == 1

NewCyclesTwice(kind) ==
  << [kind |-> kind, state |-> "pending", data |-> [hasRecords |-> TRUE, records |-> <<>>]],
     [kind |-> "timer", state |-> "pending", data |-> [hasRecords |-> TRUE, records |-> <<>>]] >>

\* one call of pollRecords() issues one axios.get
NewCycles(kind) ==
  << [kind |-> kind, state |-> "pending", data |-> [hasRecords |-> TRUE, records |-> <<>>]] >>

TrigAfterCycleStuck(kind, t) == t

\* trigger() awaits only the initial poll; whether it succeeds or throws
\* (the throw is caught), control reaches the return of the cleanup function
TrigAfterCycle(kind, t) == IF kind = "initial" THEN "returned" ELSE t

ShouldEmitAlways(records) == TRUE

\* emit is called only with a non-empty list of new records
ShouldEmit(records) == Len(records) > 0

InFlight == {c \in 1 .. Len(cycles) : cycles[c].state \in {"pending", "served"}}

\* kind         "success" | "failure" | "none"
\* resp         the records of the response it processed
\* wm           lastCheck as it found it
\* emitLen      Len(emitted) as it found it
\* failsBefore  the failed cycles since the successful one before it
\* wmOrig       lastCheck when the first of those failed
\* afterCancel  it completed after the cleanup function was invoked
\* status       the HTTP status its request failed with (NoStatus: none)
\* requests     the HTTP requests it issued
NoLast ==
  [kind |-> "none", resp |-> <<>>, wm |-> 0, emitLen |-> 0, failsBefore |-> 0,
   wmOrig |-> 0, afterCancel |-> FALSE, status |-> NoStatus, requests |-> 0]

\* consecFails  failed cycles since the last successful one
\* wmOrig       lastCheck when the first of them failed
\* emitLenOrig  Len(emitted) when the first of them failed
\* overlapTick  a timer tick has fired while a cycle was in flight
\* last         the cycle that completed in the step just taken, if one did
\* activatedAt  the clock when trigger() was called
\* noToken      trigger() was given no credentials, or credentials whose
\*              accessToken and apiKey are both empty
NoHist ==
  [consecFails |-> 0, wmOrig |-> 0, emitLenOrig |-> 0, overlapTick |-> FALSE,
   last |-> NoLast, activatedAt |-> 0, noToken |-> FALSE]

EmptyData == [hasRecords |-> TRUE, records |-> <<>>]

Max(a, b) == IF a >= b THEN a ELSE b

\* getNodeParameter("pollingInterval", 60)
PollingIntervalOptions == {Undefined} \cup (-1 .. MaxPollingSeconds)

ResolvePollingInterval(opt) == IF opt # Undefined THEN opt ELSE DefaultPollingInterval

PollIntervalNoFloor(seconds) == seconds * 1000

\* Math.max(pollingInterval * 1000, 30000)
PollInterval(seconds) == Max(seconds * 1000, MinPollInterval)

\* a trigger that has not been activated, whatever its polling interval
TrigStart ==
  /\ now = 0
  /\ trig = "idle"
  /\ timerArmed = FALSE
  /\ cancelled = FALSE
  /\ lastCheck = 0
  /\ cycles = <<>>
  /\ table = <<>>
  /\ emitted = <<>>
  /\ errorLogs = 0
  /\ hist = NoHist
  /\ pollInterval = Undefined

TrigInit ==
  /\ TrigStart
  /\ pollingInterval = ResolvePollingInterval(Undefined)

\* time passes
AdvanceClock ==
  /\ now < MaxTime
  /\ now' = now + 1
  /\ hist' = [hist EXCEPT !.last = NoLast]
  /\ UNCHANGED <<trig, timerArmed, cancelled, lastCheck, cycles, table, emitted, errorLogs>>
  /\ UNCHANGED schedVars
  /\ UNCHANGED <<reqVars, execVars>>

\* somebody adds a record to the watched table
CreateRecord ==
  /\ Len(table) < MaxRecords
  /\ table' = Append(table, [id |-> Len(table) + 1, createdTime |-> now,
                             fields |-> [Name |-> "A"]])
  /\ hist' = [hist EXCEPT !.last = NoLast]
  /\ UNCHANGED <<now, trig, timerArmed, cancelled, lastCheck, cycles, emitted, errorLogs>>
  /\ UNCHANGED schedVars
  /\ UNCHANGED <<reqVars, execVars>>

\* trigger(): the credentials check, lastCheck, setInterval, and the initial
\* pollRecords() up to its awaited axios.get
Activate ==
  /\ trig = "idle"
  /\ \E cr \in CredentialChoices :
       /\ IF CredentialsUsable(cr)
         THEN /\ lastCheck' = InitialWatermark(now)
              /\ timerArmed' = TRUE
              /\ pollInterval' = PollInterval(pollingInterval)
              /\ cycles' = cycles \o NewCycles("initial")
              /\ trig' = "initialPoll"
         ELSE /\ trig' = "threw"
              /\ UNCHANGED <<lastCheck, timerArmed, cycles, pollInterval>>
       /\ hist' = [hist EXCEPT !.last = NoLast, !.activatedAt = now,
                               !.noToken = \/ ~cr.present
                                           \/ (cr.accessToken = "" /\ cr.apiKey = "")]
  /\ UNCHANGED <<now, cancelled, table, emitted, errorLogs>>
  /\ UNCHANGED pollingInterval
  /\ UNCHANGED <<reqVars, execVars>>

\* the interval timer fires: its callback runs pollRecords() up to the awaited axios.get
TimerTick ==
  /\ timerArmed
  /\ Len(cycles) < MaxCycles
  /\ cycles' = cycles \o NewCycles("timer")
  /\ hist' = [hist EXCEPT !.overlapTick = hist.overlapTick \/ InFlight # {},
                          !.last = NoLast]
  /\ UNCHANGED <<now, trig, timerArmed, cancelled, lastCheck, table, emitted, errorLogs>>
  /\ UNCHANGED schedVars
  /\ UNCHANGED <<reqVars, execVars>>

\* Airtable answers the list request of cycle c with the table as it is now
Serve(c) ==
  /\ cycles[c].state = "pending"
  /\ cycles' = [cycles EXCEPT ![c].state = "served",
                              ![c].data = [hasRecords |-> TRUE, records |-> table]]
  /\ hist' = [hist EXCEPT !.last = NoLast]
  /\ UNCHANGED <<now, trig, timerArmed, cancelled, lastCheck, table, emitted, errorLogs>>
  /\ UNCHANGED schedVars
  /\ UNCHANGED <<reqVars, execVars>>

\* the response of cycle c arrives: the rest of pollRecords and of its caller
PollSuccess(c) ==
  /\ cycles[c].state = "served"
  /\ LET records == RecordsOf(cycles[c].data)
         newRecords == SelectSeq(records, LAMBDA r : IsNew(r, lastCheck))
     IN  /\ lastCheck' = WatermarkOnSuccess(lastCheck, now)
         /\ emitted' = IF ShouldEmit(newRecords)
                         THEN Append(emitted, ProjectAll(newRecords))
                         ELSE emitted
         /\ hist' = [hist EXCEPT !.consecFails = 0, !.wmOrig = 0, !.emitLenOrig = 0,
                                 !.last = [kind |-> "success", resp |-> records,
                                           wm |-> lastCheck,
                                           emitLen |-> Len(emitted),
                                           failsBefore |-> hist.consecFails,
                                           wmOrig |-> hist.wmOrig,
                                           afterCancel |-> cancelled,
                                           status |-> NoStatus,
                                           requests |-> PollRequests]]
  /\ cycles' = [cycles EXCEPT ![c].state = "done", ![c].data = EmptyData]
  /\ trig' = TrigAfterCycle(cycles[c].kind, trig)
  /\ UNCHANGED <<now, timerArmed, cancelled, table, errorLogs>>
  /\ UNCHANGED schedVars
  /\ UNCHANGED <<reqVars, execVars>>

\* what axios.get can reject with: no answer at all (a timeout, a lost
\* connection) or, while Airtable has not answered with the records, its
\* rate-limit answer
PollFailureStatuses(state) ==
  IF state = "pending" THEN {RateLimited, NoStatus} ELSE {NoStatus}

\* the request of cycle c fails (an error status, a timeout, no connection),
\* before or after Airtable has answered it:
\* pollRecords logs and rethrows, its caller logs
PollFailure(c) ==
  /\ cycles[c].state \in {"pending", "served"}
  /\ lastCheck' = WatermarkOnError(lastCheck, now)
  /\ timerArmed' = TimerAfterCycleError(timerArmed)
  /\ errorLogs' = errorLogs + 2
  /\ cycles' = [cycles EXCEPT ![c].state = "done", ![c].data = EmptyData]
  /\ trig' = TrigAfterCycle(cycles[c].kind, trig)
  /\ \E st \in PollFailureStatuses(cycles[c].state) :
       hist' = [hist EXCEPT
                !.consecFails = hist.consecFails + 1,
                !.wmOrig = IF hist.consecFails = 0 THEN lastCheck ELSE hist.wmOrig,
                !.emitLenOrig = IF hist.consecFails = 0 THEN Len(emitted)
                                ELSE hist.emitLenOrig,
                !.last = [NoLast EXCEPT !.kind = "failure", !.emitLen = Len(emitted),
                                        !.afterCancel = cancelled,
                                        !.status = st,
                                        !.requests = PollRequests]]
  /\ UNCHANGED <<now, cancelled, table, emitted>>
  /\ UNCHANGED schedVars
  /\ UNCHANGED <<reqVars, execVars>>

\* the host invokes the cleanup function that trigger() returned
Cancel ==
  /\ trig = "returned"
  /\ ~cancelled
  /\ timerArmed' = ClearInterval(timerArmed)
  /\ cancelled' = TRUE
  /\ hist' = [hist EXCEPT !.last = NoLast]
  /\ UNCHANGED <<now, trig, lastCheck, cycles, table, emitted, errorLogs>>
  /\ UNCHANGED schedVars
  /\ UNCHANGED <<reqVars, execVars>>

(***************************************************************************)
(* execute: the item loop, createRecord and readRecord.                    *)
(* A field object is a set of <<key, value>> pairs; JSON text is its       *)
(* sequence of tokens.  A record id is a positive number, 0 the empty      *)
(* string.  baseId and tableName are literal and non-empty throughout.     *)
(***************************************************************************)
FieldObjects == {{<<"Name", "A">>}, {<<"Name", "B">>, <<"Email", "b@x">>}}

RECURSIVE MembersText(_)
MembersText(o) ==
  IF o = {} THEN <<>>
  ELSE LET p == CHOOSE q \in o : TRUE
           rest == MembersText(o \ {p})
       IN  <<p[1], ":", p[2]>> \o (IF rest = <<>> THEN <<>> ELSE <<",">> \o rest)

\* the JSON text of a field object, as a user types it into the fields parameter
JsonText(o) == <<"{">> \o MembersText(o) \o <<"}">>

ParseError == [ok |-> FALSE, value |-> {}]

RECURSIVE ParseMembers(_)
ParseMembers(t) ==
  IF Len(t) < 3 \/ t[2] # ":" \/ t[1] \in {"{", "}", ":", ","} \/ t[3] \in {"{", "}", ":", ","}
    THEN ParseError
  ELSE IF Len(t) = 3 THEN [ok |-> TRUE, value |-> {<<t[1], t[3]>>}]
  ELSE IF t[4] # "," THEN ParseError
  ELSE LET rest == ParseMembers(SubSeq(t, 5, Len(t)))
       IN  IF rest.ok THEN [ok |-> TRUE, value |-> {<<t[1], t[3]>>} \cup rest.value]
           ELSE ParseError

\* JSON.parse of an object text; ok = FALSE when it throws a SyntaxError
JsonParse(t) ==
  IF Len(t) < 2 \/ t[1] # "{" \/ t[Len(t)] # "}" THEN ParseError
  ELSE IF Len(t) = 2 THEN [ok |-> TRUE, value |-> {}]
  ELSE ParseMembers(SubSeq(t, 2, Len(t) - 1))

\* the values of the fields parameter: an object, or a string
FieldsObject(o) == [type |-> "object", text |-> <<>>, obj |-> o]
FieldsString(t) == [type |-> "string", text |-> t, obj |-> {}]
NoFields == FieldsString(<<>>)
MalformedFields == FieldsString(<<"{", "Name", ":">>)

FieldsChoices ==
  {FieldsObject(o) : o \in FieldObjects}
    \cup {FieldsString(JsonText(o)) : o \in FieldObjects}
    \cup {NoFields, MalformedFields}

\* the field object a well-formed fields parameter denotes
FieldsMeaning(f) ==
  IF f.type = "object" THEN f.obj
  ELSE IF \E o \in FieldObjects : JsonText(o) = f.text
    THEN CHOOSE o \in FieldObjects : JsonText(o) = f.text
  ELSE {}

\* !fields
FieldsFalsy(f) == f.type = "string" /\ f.text = <<>>

\* the values of the recordId parameter: a literal id, or the template {{json.<key>}}
Literal(id) == [template |-> FALSE, key |-> "", text |-> id]
Template(k) == [template |-> TRUE, key |-> k, text |-> 0]

\* item.json of an input item, by its recordId key (0: absent or empty)
EmptyJson == [json |-> [recordId |-> 0]]
ItemChoices == {[json |-> [recordId |-> id]] : id \in {0, 1, 2}}

RECURSIVE SeqsUpTo(_, _)
SeqsUpTo(S, n) ==
  IF n = 0 THEN {<<>>}
  ELSE LET shorter == SeqsUpTo(S, n - 1)
       IN  shorter \cup {Append(q, x) : q \in shorter, x \in S}

ResolveValue(value, context) ==
  IF value.template
    THEN IF value.key \in DOMAIN context /\ context[value.key] # 0
           THEN context[value.key] ELSE 0
    ELSE value.text

ItemsToProcessAsGiven(its) == its

\* items.length > 0 ? items : [{ json: {} }]
ItemsToProcess(its) == IF Len(its) > 0 THEN its ELSE <<EmptyJson>>

SettingsChoices ==
  {[defined |-> FALSE, continueOnFail |-> FALSE],
   [defined |-> TRUE, continueOnFail |-> FALSE],
   [defined |-> TRUE, continueOnFail |-> TRUE]}

ContinueOnFailIgnored(s) == FALSE

\* this.settings?.continueOnFail
ContinueOnFail(s) == s.defined /\ s.continueOnFail

NoRequest == [method |-> "", id |-> 0, payload |-> [records |-> <<>>]]

CreatePayloadEmpty(parsed) == [records |-> <<[fields |-> {}]>>]

CreatePayload(parsed) == [records |-> <<[fields |-> parsed]>>]

\* what an operation does before it awaits makeAirtableRequest:
\* error # <<>> when it throws, else the request it issues
Prepare(op, f, rid, item) ==
  IF op = "createRecord"
    THEN IF FieldsFalsy(f)
           THEN [error |-> <<"Base ID, table name, and fields are required">>,
                 request |-> NoRequest]
         ELSE IF f.type = "string" /\ ~JsonParse(f.text).ok
           THEN [error |-> <<"Unexpected end of JSON input">>, request |-> NoRequest]
         ELSE [error |-> <<>>,
               request |-> [method |-> "POST", id |-> 0,
                            payload |-> CreatePayload(IF f.type = "string"
                                                        THEN JsonParse(f.text).value
                                                        ELSE f.obj)]]
  ELSE IF op = "readRecord"
    THEN IF ResolveValue(rid, item.json) = 0
           THEN [error |-> <<"Base ID, table name, and record ID are required">>,
                 request |-> NoRequest]
         ELSE [error |-> <<>>,
               request |-> [method |-> "GET", id |-> ResolveValue(rid, item.json),
                            payload |-> [records |-> <<>>]]]
  ELSE [error |-> <<"Unknown operation: ", op>>, request |-> NoRequest]

CreateResult(response) ==
  [success |-> TRUE, recordId |-> response.records[1].id,
   fields |-> response.records[1].fields,
   createdTime |-> response.records[1].createdTime]

ReadResult(response) ==
  [success |-> TRUE, recordId |-> response.id, fields |-> response.fields,
   createdTime |-> response.createdTime]

ErrorRecord(message, op) ==
  [json |-> [success |-> FALSE, error |-> message, operation |-> op,
             resource |-> "record"]]

\* how makeAirtableRequest can fail on a request: the connection fails, the
\* record does not exist, or the table takes no more records
RequestFailures(req) ==
  {TransportFailure("ECONNRESET")}
    \cup (IF req.method = "GET" /\ req.id \notin 1 .. Len(store)
            THEN {HttpFailure(404, "")} ELSE {})
    \cup (IF req.method = "POST" /\ Len(store) >= MaxStore
            THEN {HttpFailure(422, "")} ELSE {})

(***************************************************************************)
(* resolveValue on text.  A string is its sequence of tokens: the braces,  *)
(* the prefix json., word characters and other characters.  The strings    *)
(* enumerated are made of parts: a template {{json.<key>}} or a piece of   *)
(* text that holds no template.                                            *)
(***************************************************************************)
WordTokens == {"a", "b", "x", "0", "7"}

TemplatePart(key) == [template |-> TRUE, text |-> key]
TextPart(t) == [template |-> FALSE, text |-> t]

PartText(p) ==
  IF p.template THEN <<"{", "{", "json.">> \o p.text \o <<"}", "}">> ELSE p.text

\* a space; {{a}}, which lacks json.; {{json.a-b}}, whose key is no word
TextChoices ==
  {<<" ">>, <<"{", "{", "a", "}", "}">>, <<"{", "{", "json.", "a", "-", "b", "}", "}">>}

PartChoices ==
  {TemplatePart(<<"a">>), TemplatePart(<<"b">>)} \cup {TextPart(t) : t \in TextChoices}

RECURSIVE Flatten(_)
Flatten(parts) ==
  IF parts = <<>> THEN <<>> ELSE PartText(Head(parts)) \o Flatten(Tail(parts))

\* the value argument: a string made of up to MaxParts parts, or the number 7
InputChoices ==
  {[isString |-> TRUE, parts |-> ps] : ps \in SeqsUpTo(PartChoices, MaxParts)}
    \cup {[isString |-> FALSE, parts |-> <<TextPart(<<"7">>)>>]}

ValueOf(input) == [isString |-> input.isString, text |-> Flatten(input.parts)]

\* what a key of the context holds: nothing, a string, or the number 0
Absent == [present |-> FALSE, falsy |-> TRUE, text |-> <<>>]
StringValue(t) == [present |-> TRUE, falsy |-> t = <<>>, text |-> t]
Zero == [present |-> TRUE, falsy |-> TRUE, text |-> <<"0">>]

ContextChoices ==
  {[k \in {<<"a">>, <<"b">>} |-> IF k = <<"a">> THEN va ELSE vb] :
     va \in {Absent, StringValue(<<"x">>), Zero,
              StringValue(PartText(TemplatePart(<<"b">>)))},
     vb \in {Absent, StringValue(<<"b">>)}}

\* value.includes("{{")
IncludesBraces(t) == \E i \in 1 .. Len(t) - 1 : t[i] = "{" /\ t[i + 1] = "{"

\* the length of the run of word characters of t that starts at position i
RECURSIVE WordRun(_, _)
WordRun(t, i) ==
  IF i <= Len(t) /\ t[i] \in WordTokens THEN 1 + WordRun(t, i + 1) ELSE 0

\* /\{\{json\.(\w+)\}\}/ matches t at position i: the length of the key, else 0
MatchAt(t, i) ==
  LET k == WordRun(t, i + 3)
  IN  IF /\ i + 5 <= Len(t)
         /\ t[i] = "{" /\ t[i + 1] = "{" /\ t[i + 2] = "json."
         /\ k >= 1
         /\ i + 4 + k <= Len(t)
         /\ t[i + 3 + k] = "}" /\ t[i + 4 + k] = "}"
        THEN k ELSE 0

\* context[key] || ""
Lookup(context, key) ==
  IF key \in DOMAIN context /\ context[key].present /\ ~context[key].falsy
    THEN context[key].text ELSE <<>>

\* String.prototype.replace with the global pattern, from position i on
RECURSIVE ReplaceAll(_, _, _)
ReplaceAll(t, i, context) ==
  IF i > Len(t) THEN <<>>
  ELSE LET k == MatchAt(t, i)
       IN  IF k > 0
             THEN Lookup(context, SubSeq(t, i + 3, i + 2 + k))
                    \o ReplaceAll(t, i + 5 + k, context)
             ELSE <<t[i]>> \o ReplaceAll(t, i + 1, context)

ResolveValueText(value, context) ==
  IF value.isString /\ IncludesBraces(value.text)
    THEN [isString |-> TRUE, text |-> ReplaceAll(value.text, 1, context)]
    ELSE value

TplInert ==
  /\ tplInput = [isString |-> TRUE, parts |-> <<>>]
  /\ tplContext = [k \in {<<"a">>, <<"b">>} |-> Absent]
  /\ tplResult = [isString |-> TRUE, text |-> <<>>]
  /\ tplDone = FALSE

TplInit ==
  /\ tplInput \in InputChoices
  /\ tplContext \in ContextChoices
  /\ tplResult = [isString |-> TRUE, text |-> <<>>]
  /\ tplDone = FALSE

\* resolveValue(value, context) is called and returns
CallResolveValue ==
  /\ ~tplDone
  /\ tplResult' = ResolveValueText(ValueOf(tplInput), tplContext)
  /\ tplDone' = TRUE
  /\ UNCHANGED <<tplInput, tplContext>>
  /\ UNCHANGED <<execPc, settings, operation, fields, recordId, items, execIdx, results,
                 request, thrown, output, store, log, submitted>>
  /\ UNCHANGED <<reqVars, trigVars>>

ExecIdle ==
  /\ execPc = "idle"
  /\ settings = [defined |-> FALSE, continueOnFail |-> FALSE]
  /\ operation = "createRecord"
  /\ fields = NoFields
  /\ recordId = Literal(0)
  /\ items = <<>>
  /\ execIdx = 1
  /\ results = <<>>
  /\ request = NoRequest
  /\ thrown = <<>>
  /\ output = <<>>
  /\ store = <<>>
  /\ log = <<>>
  /\ submitted = {}

ExecInit == ExecIdle /\ TplInert

\* the parameters of a call; those the operation does not read stay at
\* their defaults
ParameterChoices ==
  [operation : {"createRecord"}, fields : FieldsChoices, recordId : {Literal(0)},
   items : SeqsUpTo({EmptyJson}, MaxItems)]
    \cup [operation : {"readRecord"}, fields : {NoFields},
          recordId : {Literal(id) : id \in 0 .. MaxStore},
          items : SeqsUpTo({EmptyJson}, MaxItems)]
    \cup [operation : {"readRecord"}, fields : {NoFields},
          recordId : {Template("recordId")}, items : SeqsUpTo(ItemChoices, MaxItems)]
    \cup [operation : {"archiveRecord"}, fields : {NoFields}, recordId : {Literal(0)},
          items : SeqsUpTo({EmptyJson}, MaxItems)]

\* what getCredentials("airtable") resolves to in execute: nothing,
\* credentials with no token at all, or a personal access token
ExecCredentialChoices ==
  {NoCredentials,
   [present |-> TRUE, authenticationType |-> "pat", accessToken |-> "", apiKey |-> ""],
   [present |-> TRUE, authenticationType |-> "pat", accessToken |-> "patTok",
    apiKey |-> ""]}

\* execute is called: parameters are read and the credentials checked
ExecStart ==
  /\ execPc \in {"idle", "returned", "threw"}
  /\ \E cr \in ExecCredentialChoices :
       /\ credentials' = cr
       /\ IF CredentialsUsable(cr)
         THEN /\ execPc' = "loop"
              /\ thrown' = <<>>
              /\ \E st \in SettingsChoices : settings' = st
              /\ \E prm \in ParameterChoices :
                   /\ operation' = prm.operation
                   /\ fields' = prm.fields
                   /\ recordId' = prm.recordId
                   /\ items' = prm.items
         ELSE \* thrown before settings, fields, recordId or the items are read
              /\ execPc' = "threw"
              /\ thrown' = <<"Airtable credentials are required. Please configure Airtable credentials.">>
              /\ \E op \in {"createRecord", "readRecord", "archiveRecord"} :
                   operation' = op
              /\ settings' = [defined |-> FALSE, continueOnFail |-> FALSE]
              /\ fields' = NoFields
              /\ recordId' = Literal(0)
              /\ items' = <<>>
  /\ execIdx' = 1
  /\ results' = <<>>
  /\ request' = NoRequest
  /\ output' = <<>>
  /\ log' = <<>>
  /\ UNCHANGED <<store, submitted>>
  /\ UNCHANGED <<maxRetries, retryDelay, pc, attempt, lastError, outcomes, sleeps,
                 warnings, result, sentHeaders>>
  /\ UNCHANGED <<trigVars, tplVars>>

\* the catch of the item loop, on an error with this message
ItemFailed(message) ==
  /\ log' = Append(log, message)
  /\ request' = NoRequest
  /\ IF ContinueOnFail(settings)
       THEN /\ results' = Append(results, ErrorRecord(message, operation))
            /\ execIdx' = execIdx + 1
            /\ execPc' = "loop"
            /\ UNCHANGED thrown
       ELSE /\ execPc' = "threw"
            /\ thrown' = message
            /\ UNCHANGED <<results, execIdx>>

\* the loop takes the next item and runs its operation up to the await of
\* makeAirtableRequest, or to the throw before it
ExecItem ==
  /\ execPc = "loop"
  /\ execIdx <= Len(ItemsToProcess(items))
  /\ LET prep == Prepare(operation, fields, recordId, ItemsToProcess(items)[execIdx])
     IN  IF prep.error = <<>>
           THEN /\ request' = prep.request
                /\ execPc' = "await"
                /\ UNCHANGED <<results, execIdx, thrown, log>>
           ELSE ItemFailed(prep.error)
  /\ UNCHANGED <<settings, operation, fields, recordId, items, output, store,
                 submitted>>
  /\ UNCHANGED <<reqVars, trigVars, tplVars>>

\* makeAirtableRequest returns the body of Airtable's answer: a POST stores
\* the record under a new id, a GET finds the record of the id
ExecRespondOk ==
  /\ execPc = "await"
  /\ \/ /\ request.method = "POST"
        /\ Len(store) < MaxStore
        /\ LET record == [id |-> Len(store) + 1,
                          fields |-> request.payload.records[1].fields,
                          createdTime |-> Len(store) + 1]
               created == CreateResult([records |-> <<record>>])
           IN  /\ store' = Append(store, record)
               /\ results' = Append(results, [json |-> created])
               /\ submitted' = submitted \cup {<<created.recordId, FieldsMeaning(fields)>>}
     \/ /\ request.method = "GET"
        /\ request.id \in 1 .. Len(store)
        /\ results' = Append(results, [json |-> ReadResult(store[request.id])])
        /\ UNCHANGED <<store, submitted>>
  /\ log' = Append(log, <<>>)
  /\ request' = NoRequest
  /\ execIdx' = execIdx + 1
  /\ execPc' = "loop"
  /\ UNCHANGED <<settings, operation, fields, recordId, items, thrown, output>>
  /\ UNCHANGED <<reqVars, trigVars, tplVars>>

\* makeAirtableRequest throws the error it classified
ExecRespondError ==
  /\ execPc = "await"
  /\ \E o \in RequestFailures(request) : ItemFailed(Tail(Classify(o).error))
  /\ UNCHANGED <<settings, operation, fields, recordId, items, output, store,
                 submitted>>
  /\ UNCHANGED <<reqVars, trigVars, tplVars>>

\* the loop is over: return [{ main: results }]
ExecReturn ==
  /\ execPc = "loop"
  /\ execIdx > Len(ItemsToProcess(items))
  /\ execPc' = "returned"
  /\ output' = results
  /\ UNCHANGED <<settings, operation, fields, recordId, items, execIdx, results, request,
                 thrown, store, log, submitted>>
  /\ UNCHANGED <<reqVars, trigVars, tplVars>>

(***************************************************************************)
(* The specifications.                                                     *)
(***************************************************************************)
ReqInert ==
  /\ maxRetries = DefaultMaxRetries
  /\ retryDelay = DefaultRetryDelay
  /\ pc = "idle"
  /\ attempt = 0
  /\ lastError = NoError
  /\ outcomes = <<>>
  /\ sleeps = <<>>
  /\ warnings = <<>>
  /\ result = Pending
  /\ credentials = NoCredentials
  /\ sentHeaders = <<>>

Init == ReqInit /\ TrigInit /\ ExecInit

Next == Call \/ RespondSuccess \/ RespondFailure \/ Wake

Spec == Init /\ [][Next]_vars

\* every awaited axios call settles and every backoff timer fires
LiveSpec == Spec /\ WF_vars(Next)

TriggerInit == ReqInert /\ TrigInit /\ ExecInit

TriggerNext ==
  \/ AdvanceClock
  \/ CreateRecord
  \/ Activate
  \/ TimerTick
  \/ \E c \in 1 .. Len(cycles) : Serve(c)
  \/ \E c \in 1 .. Len(cycles) : PollSuccess(c)
  \/ \E c \in 1 .. Len(cycles) : PollFailure(c)
  \/ Cancel

TriggerSpec == TriggerInit /\ [][TriggerNext]_vars

\* trigger() under every value of the pollingInterval parameter
ScheduleInit ==
  /\ ReqInert
  /\ ExecInit
  /\ TrigStart
  /\ \E opt \in PollingIntervalOptions : pollingInterval = ResolvePollingInterval(opt)

ScheduleNext == Activate

ScheduleSpec == ScheduleInit /\ [][ScheduleNext]_vars

\* execute(), called again and again against one Airtable table
ExecuteInit == ReqInert /\ TrigInit /\ ExecInit

ExecuteNext == ExecStart \/ ExecItem \/ ExecRespondOk \/ ExecRespondError \/ ExecReturn

ExecuteSpec == ExecuteInit /\ [][ExecuteNext]_vars

\* the host runs one of the two nodes: the trigger or the action node
NodeInit == ReqInert /\ TrigInit /\ ExecInit

NodeNext ==
  \/ execPc = "idle" /\ TriggerNext
  \/ trig = "idle" /\ now = 0 /\ table = <<>> /\ ExecuteNext

NodeSpec == NodeInit /\ [][NodeNext]_vars

\* one call of resolveValue, on every value and context enumerated
ResolveInit == ReqInert /\ TrigInit /\ ExecIdle /\ TplInit

ResolveNext == CallResolveValue

ResolveSpec == ResolveInit /\ [][ResolveNext]_vars

(***************************************************************************)
(* Claims about makeAirtableRequest (checked under Spec).                  *)
(***************************************************************************)
Attempts == Len(outcomes)

AllRateLimited == \A i \in 1 .. Len(outcomes) : outcomes[i].status = RateLimited

\* the branch of the classification chain a thrown message comes from
FailureClass(res) ==
  IF res.error[1] = "TypeError" THEN "typeError"
  ELSE IF res.error[2] = "Invalid Airtable credentials. Please check your token."
    THEN "invalidCredentials"
  ELSE IF res.error[2] = "Access forbidden. Check your token permissions."
    THEN "forbidden"
  ELSE IF res.error[2] = "Resource not found. Check your base ID, table name, or record ID."
    THEN "notFound"
  ELSE IF res.error[2] = "Invalid request: " THEN "invalidRequest"
  ELSE "other"

\* C1: when every attempt is answered with 429 (maxRetries = n >= 0) the call
\* makes exactly n+1 attempts and then throws a failure of a rate-limit class
\* of its own, not the unclassified "other" API error.
C1_RateLimitExhaustedClass ==
  (pc = "done" /\ maxRetries >= 0 /\ AllRateLimited)
    => /\ Attempts = maxRetries + 1
       /\ result.type = "throw"
       /\ FailureClass(result) # "other"

\* C2: a failure that is not a 429 is never retried: it is the last attempt,
\* the call is over and no backoff sleep follows it; a 404 on the first attempt
\* gives one attempt, no sleep and the "not found" error.
C2_NoRetryOfNon429 ==
  /\ \A i \in 1 .. Len(outcomes) :
       (outcomes[i].kind # "success" /\ outcomes[i].status # RateLimited)
         => /\ i = Len(outcomes)
            /\ pc = "done"
            /\ result.type = "throw"
            /\ Len(sleeps) = i - 1
  /\ (Len(outcomes) >= 1 /\ outcomes[1].status = 404)
       => /\ Attempts = 1
          /\ sleeps = <<>>
          /\ result.error = <<"Error",
               "Resource not found. Check your base ID, table name, or record ID.">>

C2_Witness == pc = "done" /\ Len(outcomes) = 1 /\ outcomes[1].status = 404 /\ maxRetries >= 1

\* C3: a success on attempt k (0 <= k <= maxRetries) after k answers of 429 ends
\* the call: it returns that response's body, the attempts are exactly k+1, and
\* nothing (no attempt, no sleep) follows the success.
C3_SuccessEndsTheCall ==
  \A i \in 1 .. Len(outcomes) :
    outcomes[i].kind = "success"
      => /\ i = Len(outcomes)
         /\ i - 1 <= maxRetries
         /\ \A j \in 1 .. i - 1 : outcomes[j].status = RateLimited
         /\ pc = "done"
         /\ result.type = "return"
         /\ result.value = outcomes[i].data
         /\ Len(sleeps) = i - 1

C3_Witness ==
  /\ pc = "done"
  /\ Len(outcomes) = 3
  /\ outcomes[3].kind = "success"
  /\ result.value = "bodyB"

\* C4: the sleep before attempt i (0-indexed, 1 <= i <= maxRetries) lasts
\* retryDelay * 2^(i-1) ms and follows a 429 on attempt i-1; one warning is
\* logged for each sleep; a finished call has slept once less than it attempted.
C4_BackoffDelays ==
  /\ Len(sleeps) <= Len(outcomes)
  /\ \A i \in 1 .. Len(sleeps) :
       /\ i <= maxRetries
       /\ sleeps[i] = retryDelay * (2 ^ (i - 1))
       /\ outcomes[i].status = RateLimited
  /\ Len(warnings) = Len(sleeps)
  /\ \A i \in 1 .. Len(sleeps) : warnings[i] = sleeps[i]
  /\ pc \in {"request", "sleep"} => Len(sleeps) = Attempts
  /\ (pc = "done" /\ maxRetries >= 0) => Len(sleeps) = Attempts - 1

C4_Witness == pc = "done" /\ Len(sleeps) = 3 /\ retryDelay = 2 /\ sleeps[3] = 8

(***************************************************************************)
(* Claims about the trigger (checked under TriggerSpec).                   *)
(***************************************************************************)
\* the batch that the cycle completed in the step just taken gave to emit
EmittedByLast ==
  IF Len(emitted) > hist.last.emitLen THEN emitted[Len(emitted)] ELSE <<>>

\* the records of resp created strictly after t, as emit receives them
NewSince(resp, t) ==
  LET newer == SelectSeq(resp, LAMBDA r : r.createdTime > t)
  IN  [i \in 1 .. Len(newer) |->
         [json |-> [recordId |-> newer[i].id, fields |-> newer[i].fields,
                    createdTime |-> newer[i].createdTime]]]

\* C5: failed poll cycles, however many in a row, leave lastCheck as it was and
\* emit nothing, and the successful cycle that follows them takes as new the
\* records created after that original watermark.
C5_FailedCycleKeepsWatermark ==
  /\ hist.consecFails > 0
       => /\ lastCheck = hist.wmOrig
          /\ Len(emitted) = hist.emitLenOrig
  /\ hist.last.kind = "failure" => Len(emitted) = hist.last.emitLen
  /\ (hist.last.kind = "success" /\ hist.last.failsBefore > 0)
       => /\ hist.last.wm = hist.last.wmOrig
          /\ EmittedByLast = NewSince(hist.last.resp, hist.last.wmOrig)

C5_Witness ==
  /\ hist.last.kind = "success"
  /\ hist.last.failsBefore >= 2
  /\ hist.last.wmOrig < now
  /\ EmittedByLast # <<>>

\* C6: once the cleanup function has been invoked nothing more is emitted,
\* whatever ticks and poll cycles were due or in flight at that moment.
C6_NoEmissionAfterCancel == [][cancelled => emitted' = emitted]_vars

\* C7: after the cleanup function has been invoked no timer callback starts a
\* poll cycle; the stopped state is final and only the cleanup function leads
\* to it; invoking it leaves the cycles in flight as they are.
C7_CancelStopsTheTimer ==
  /\ [](trig \in {"initialPoll", "returned"} => (timerArmed <=> ~cancelled))
  /\ [][cancelled => (cancelled' /\ ~timerArmed' /\ Len(cycles') = Len(cycles))]_vars
  /\ [][(~cancelled /\ cancelled') => cycles' = cycles]_vars

C7_Witness ==
  /\ cancelled
  /\ hist.last.afterCancel
  /\ hist.last.kind = "success"
  /\ Len(cycles) < MaxCycles

\* C8 as stated: at most one poll cycle is in flight at any time.
C8_AtMostOneCycle == Cardinality(InFlight) <= 1

\* C8, amended: at most one poll cycle is in flight as long as no timer tick has
\* fired while a cycle was still in flight.
C8_OneCycleUnlessTickOverlaps == ~hist.overlapTick => Cardinality(InFlight) <= 1

C8_Witness ==
  /\ ~hist.overlapTick
  /\ Len(cycles) >= 2
  /\ Cardinality(InFlight) = 1
  /\ cycles[Len(cycles)].kind = "timer"

C10_CycleErrorsAreSwallowed ==
  /\ trig = "threw" => (cycles = <<>> /\ errorLogs = 0 /\ ~timerArmed)
  /\ cycles # <<>> => (timerArmed <=> ~cancelled)
  /\ hist.consecFails > 0
       => /\ errorLogs >= 2 * hist.consecFails
          /\ trig \in {"initialPoll", "returned"}

C10_Witness ==
  /\ hist.consecFails >= 1
  /\ ~hist.overlapTick
  /\ Len(cycles) >= 2
  /\ InFlight # {}
  /\ trig = "returned"

(***************************************************************************)
(* Further claims about makeAirtableRequest (checked under Spec).          *)
(***************************************************************************)
LastOutcome == outcomes[Len(outcomes)]

\* C11: a failure without an HTTP response (connection refused, timeout) ends
\* the call on the attempt it occurs on, with no sleep after it, and is thrown
\* with a message of its own, not the one of the unclassified "other" error.
C11_TransportFailureDistinguished ==
  \A i \in 1 .. Len(outcomes) :
    outcomes[i].kind = "transport"
      => /\ i = Len(outcomes)
         /\ pc = "done"
         /\ Len(sleeps) = i - 1
         /\ result.type = "throw"
         /\ FailureClass(result) # "other"

\* C12: the thrown failure depends on the last attempt's error only: 401, 403,
\* 404 and 422 have a message each, and what earlier attempts failed with is
\* dropped (429, 429, 404 gives the not-found failure).
C12_LastErrorDecides ==
  (pc = "done" /\ result.type = "throw" /\ maxRetries >= 0)
    => /\ LastOutcome.kind # "success"
       /\ lastError = LastOutcome
       /\ LastOutcome.status = 401 =>
            result.error = <<"Error", "Invalid Airtable credentials. Please check your token.">>
       /\ LastOutcome.status = 403 =>
            result.error = <<"Error", "Access forbidden. Check your token permissions.">>
       /\ LastOutcome.status = 404 =>
            result.error = <<"Error",
              "Resource not found. Check your base ID, table name, or record ID.">>
       /\ LastOutcome.status = 422 =>
            /\ result.error[1] = "Error"
            /\ result.error[2] = "Invalid request: "
            /\ result.error[3] = IF LastOutcome.data # "" THEN LastOutcome.data
                                 ELSE "Unknown error"
       /\ LastOutcome.status \notin {401, 403, 404, 422} =>
            result.error = <<"Error", "Airtable API error: ">> \o LastOutcome.message

C12_Witness ==
  /\ pc = "done"
  /\ Len(outcomes) = 3
  /\ outcomes[1].status = RateLimited
  /\ outcomes[2].status = RateLimited
  /\ outcomes[3].status = 404
  /\ FailureClass(result) = "notFound"

RECURSIVE SumSeq(_)
SumSeq(q) == IF q = <<>> THEN 0 ELSE q[1] + SumSeq(Tail(q))

TotalWaitBound == retryDelay * ((2 ^ maxRetries) - 1)

\* C18 as stated: the backoff sleeps of one call add up to at most
\* retryDelay * (2^maxRetries - 1) ms, and to exactly that when, and only when,
\* every attempt was rate-limited.
C18_BoundReachedOnlyIfAllRateLimited ==
  (pc = "done" /\ maxRetries >= 0)
    => /\ SumSeq(sleeps) <= TotalWaitBound
       /\ (SumSeq(sleeps) = TotalWaitBound) <=> AllRateLimited

\* C18, amended: the backoff sleeps of one call add up to at most
\* retryDelay * (2^maxRetries - 1) ms, and to exactly that when, and only when,
\* each of the first maxRetries attempts was rate-limited, whatever the answer
\* to the attempt after them.
C18_TotalWaitBounded ==
  maxRetries >= 0
    => /\ SumSeq(sleeps) <= TotalWaitBound
       /\ SumSeq(sleeps) = retryDelay * ((2 ^ Len(sleeps)) - 1)
       /\ pc = "done" =>
            ((SumSeq(sleeps) = TotalWaitBound)
               <=> /\ Len(outcomes) = maxRetries + 1
                   /\ \A i \in 1 .. maxRetries : outcomes[i].status = RateLimited)

C18_Witness ==
  /\ pc = "done"
  /\ maxRetries = 2
  /\ Len(outcomes) = 3
  /\ outcomes[3].kind = "success"
  /\ SumSeq(sleeps) = TotalWaitBound
  /\ TotalWaitBound > 0

\* C17: the Authorization header is "Bearer <token>" when authenticationType is
\* "pat" and the bare token otherwise, the token being accessToken when that is
\* not empty and apiKey when it is, whichever fields are filled in; every
\* attempt of a request carries the same header, and a poll carries that header.
C17_AuthorizationHeader ==
  LET token == IF credentials.accessToken = "" THEN credentials.apiKey
               ELSE credentials.accessToken
      expected == IF credentials.authenticationType = "pat"
                    THEN <<"Bearer ", token>> ELSE <<token>>
  IN  /\ \A i \in 1 .. Len(sentHeaders) : sentHeaders[i] = expected
      /\ Len(sentHeaders) = Len(outcomes) + (IF pc \in {"request"} THEN 1 ELSE 0)
      /\ PollAuthHeader(credentials) = expected

C17_Witness ==
  /\ pc = "done"
  /\ Len(sentHeaders) = 3
  /\ credentials.authenticationType = "pat"
  /\ credentials.accessToken # ""
  /\ credentials.apiKey # ""
  /\ sentHeaders[3] = <<"Bearer ", credentials.accessToken>>

(***************************************************************************)
(* Claims about the polling interval (checked under ScheduleSpec).         *)
(***************************************************************************)
\* C13: the timer is armed with max(configuredSeconds * 1000, 30000) ms, which
\* is never less than 30000 ms; 5 seconds give 30000 ms, not 5000.
C13_IntervalFloor ==
  timerArmed
    => /\ pollInterval >= 30000
       /\ pollInterval >= pollingInterval * 1000
       /\ pollInterval \in {30000, pollingInterval * 1000}
       /\ pollingInterval = 5 => pollInterval = 30000

C13_Witness == timerArmed /\ pollingInterval = 5 /\ pollInterval = 30000

(***************************************************************************)
(* Claims about the initial poll and the emitted batches (TriggerSpec).    *)
(***************************************************************************)
\* C14: activation issues the initial poll before any timer-driven cycle
\* (Polling); trigger() returns exactly when that poll has completed, after a
\* success as after a failure, and the loop is Idle then (timer armed, nothing
\* in flight) unless a tick fired while the initial poll was in flight.
C14_InitialPollFirst ==
  /\ cycles # <<>>
       => /\ cycles[1].kind = "initial"
          /\ \A c \in 2 .. Len(cycles) : cycles[c].kind = "timer"
  /\ trig = "initialPoll" <=> (cycles # <<>> /\ 1 \in InFlight)
  /\ trig = "returned" <=> (cycles # <<>> /\ cycles[1].state = "done")
  /\ (hist.last.kind # "none" /\ Len(cycles) = 1)
       => (trig = "returned" /\ InFlight = {} /\ timerArmed)

\* C14, as the specification states it: in addition, timer-driven cycles
\* follow only after the initial poll has completed.
C14_TimerCyclesOnlyAfterInitialPoll ==
  /\ C14_InitialPollFirst
  /\ trig = "initialPoll" => Len(cycles) = 1

\* the initial poll failed, trigger() returned, and a timer cycle follows
C14_Witness ==
  /\ trig = "returned"
  /\ errorLogs = 2
  /\ Len(cycles) = 2
  /\ cycles[1].state = "done"
  /\ cycles[2].kind = "timer"
  /\ cycles[2].state = "pending"
  /\ ~hist.overlapTick

\* C15: every emitted batch is non-empty and holds items of the shape
\* { json: { recordId, fields, createdTime } }; a cycle emits at most one
\* batch: a successful one emits all its new records together, or nothing
\* when there is none, and a failed one emits nothing.
C15_OneNonEmptyBatchPerCycle ==
  /\ \A b \in 1 .. Len(emitted) :
       /\ Len(emitted[b]) > 0
       /\ \A j \in 1 .. Len(emitted[b]) :
            /\ DOMAIN emitted[b][j] = {"json"}
            /\ DOMAIN emitted[b][j].json = {"recordId", "fields", "createdTime"}
  /\ hist.last.kind = "success"
       => /\ Len(emitted) = hist.last.emitLen
                            + (IF NewSince(hist.last.resp, hist.last.wm) # <<>>
                                 THEN 1 ELSE 0)
          /\ NewSince(hist.last.resp, hist.last.wm) # <<>>
               => emitted[Len(emitted)] = NewSince(hist.last.resp, hist.last.wm)
  /\ hist.last.kind = "failure" => Len(emitted) = hist.last.emitLen

\* two new records were emitted together, as one batch
C15_Witness ==
  /\ hist.last.kind = "success"
  /\ Len(emitted) = hist.last.emitLen + 1
  /\ Len(emitted[Len(emitted)]) = 2

(***************************************************************************)
(* The poll request against the Request Executor (TriggerSpec).            *)
(***************************************************************************)
\* C20: a poll cycle whose list request is answered 429 retries it (as
\* makeAirtableRequest does, with backoff) before the cycle counts as failed,
\* so a cycle that failed on a 429 has issued more than one request.
C20_PollRetriesRateLimit ==
  (hist.last.kind = "failure" /\ hist.last.status = RateLimited)
    => hist.last.requests > 1

(***************************************************************************)
(* Claims about execute (checked under ExecuteSpec).                       *)
(***************************************************************************)
\* C16: when an item's operation fails, then with continueOnFail set the
\* record {success: false, error, operation, resource} is appended for that
\* item and the remaining items are still processed; without it the error is
\* thrown, the loop stops at that item and no results are returned.
C16_ContinueOnFail ==
  LET n == Len(ItemsToProcess(items))
      failed(i) == log[i] # <<>>
  IN  IF settings.defined /\ settings.continueOnFail
        THEN /\ Len(results) = Len(log)
             /\ \A i \in 1 .. Len(log) :
                  IF failed(i)
                    THEN /\ ~results[i].json.success
                         /\ results[i].json.error = log[i]
                         /\ results[i].json.operation = operation
                         /\ results[i].json.resource = "record"
                         /\ DOMAIN results[i].json
                              = {"success", "error", "operation", "resource"}
                    ELSE results[i].json.success
             /\ execPc = "threw" => log = <<>>
             /\ execPc = "returned" => (Len(log) = n /\ output = results)
        ELSE /\ \A i \in 1 .. Len(log) - 1 : ~failed(i)
             /\ (log # <<>> /\ failed(Len(log)))
                  => /\ execPc = "threw"
                     /\ thrown = log[Len(log)]
                     /\ execIdx = Len(log)
                     /\ output = <<>>
             /\ execPc = "returned"
                  => (Len(log) = n /\ output = results /\ \A i \in 1 .. n : ~failed(i))

\* with continueOnFail the first item failed and the second one was processed
C16_Witness ==
  /\ execPc = "returned"
  /\ settings.continueOnFail
  /\ Len(output) = 2
  /\ ~output[1].json.success
  /\ output[2].json.success

\* C19: against a table that stores what is posted and returns what is
\* stored, readRecord with a recordId that createRecord returned yields that
\* id and the fields createRecord was given: fields {"Name": "A"} read back
\* have Name "A".
C19_CreateReadRoundTrip ==
  \A i \in 1 .. Len(results) :
    (operation = "readRecord" /\ results[i].json.success)
      => \A p \in submitted :
           p[1] = ResolveValue(recordId, ItemsToProcess(items)[i].json)
             => /\ results[i].json.recordId = p[1]
                /\ results[i].json.fields = p[2]
                /\ <<"Name", "A">> \in p[2]
                     => \E q \in results[i].json.fields : q[1] = "Name" /\ q[2] = "A"

\* a record created with fields {"Name": "A"} was read back by the id returned
C19_Witness ==
  /\ operation = "readRecord"
  /\ execPc = "returned"
  /\ \E i \in 1 .. Len(output) :
       /\ output[i].json.success
       /\ <<output[i].json.recordId, {<<"Name", "A">>}>> \in submitted
       /\ output[i].json.fields = {<<"Name", "A">>}

(***************************************************************************)
(* Claims about records and the watermark across cycles (TriggerSpec).     *)
(***************************************************************************)
\* C21: no record is lost: when a cycle completes successfully, every record
\* of the table that is newer than the watermark the cycle found is either in
\* the batch the cycle emits or still newer than the advanced watermark, so
\* that a later cycle emits it.
C21_NoRecordLost ==
  hist.last.kind = "success"
    => \A i \in 1 .. Len(table) :
         table[i].createdTime > hist.last.wm
           => \/ \E j \in 1 .. Len(EmittedByLast) :
                   EmittedByLast[j].json.recordId = table[i].id
              \/ table[i].createdTime > lastCheck

\* the positions <<batch, item>> at which the record of this id was emitted
Emissions(id) ==
  {bj \in (1 .. Len(emitted)) \X (1 .. MaxRecords) :
     /\ bj[2] <= Len(emitted[bj[1]])
     /\ emitted[bj[1]][bj[2]].json.recordId = id}

\* C22: in every interleaving of the cycles of one trigger, overlapping ones
\* included, each record is emitted at most once (a record's createdTime is
\* never later than the clock when a response holding it is processed).
C22_EmittedAtMostOnce ==
  /\ \A i \in 1 .. Len(table) : table[i].createdTime <= now
  /\ \A i \in 1 .. Len(table) : Cardinality(Emissions(table[i].id)) <= 1

\* a cycle that overlapped another one received a record that had already
\* been emitted, and did not emit it again
C22_Witness ==
  /\ hist.overlapTick
  /\ hist.last.kind = "success"
  /\ InFlight = {}
  /\ \E i \in 1 .. Len(hist.last.resp) :
       \E bj \in Emissions(hist.last.resp[i].id) : bj[1] <= hist.last.emitLen

\* C23: lastCheck starts at the activation time, changes only when a cycle
\* completes successfully (it is then the completion time, also when no
\* record was new), never decreases, and no record created at or before
\* activation is ever emitted.
C23_WatermarkMonotone ==
  /\ [][(trig = "idle" /\ trig' = "initialPoll") => lastCheck' = now']_vars
  /\ [][(trig # "idle" /\ lastCheck' # lastCheck) => hist'.last.kind = "success"]_vars
  /\ [][hist'.last.kind = "success" => lastCheck' = now']_vars
  /\ [][lastCheck' >= lastCheck]_vars
  /\ [](trig \in {"initialPoll", "returned"} => lastCheck >= hist.activatedAt)
  /\ [](\A b \in 1 .. Len(emitted) : \A j \in 1 .. Len(emitted[b]) :
          emitted[b][j].json.createdTime > hist.activatedAt)

\* a successful cycle that found nothing new advanced the watermark past a
\* record created before activation
C23_Witness ==
  /\ hist.last.kind = "success"
  /\ hist.last.emitLen = Len(emitted)
  /\ lastCheck > hist.last.wm
  /\ hist.last.resp # <<>>
  /\ hist.last.resp[1].createdTime <= hist.activatedAt

(***************************************************************************)
(* The items and the results of execute (checked under ExecuteSpec).       *)
(***************************************************************************)
\* C26: execute processes the items one after the other in input order; when
\* it returns, the output holds exactly one result per item, in that order
\* (a success payload or, under continueOnFail, an error record); an empty
\* input is processed as one empty item and returns exactly one result.
C26_OneResultPerItem ==
  LET n == IF items = <<>> THEN 1 ELSE Len(items)
  IN  /\ Len(log) <= n
      /\ Len(results) <= Len(log)
      /\ execPc \in {"loop", "await"} => execIdx = Len(log) + 1
      /\ request # NoRequest <=> execPc = "await"
      /\ execPc = "returned"
           => (Len(output) = n /\ Len(log) = n /\ output = results)
      /\ (operation = "readRecord" /\ recordId.template /\ items # <<>>)
           => \A i \in 1 .. Len(results) :
                IF results[i].json.success
                  THEN results[i].json.recordId = items[i].json.recordId
                  ELSE (items[i].json.recordId = 0
                          <=> results[i].json.error
                                = <<"Base ID, table name, and record ID are required">>)

\* two items naming two records were read in the order of the input
C26_Witness ==
  /\ execPc = "returned"
  /\ operation = "readRecord"
  /\ recordId.template
  /\ Len(items) = 2
  /\ items[1].json.recordId = 2
  /\ items[2].json.recordId = 1
  /\ output[1].json.success
  /\ output[2].json.success
  /\ output[1].json.recordId = 2
  /\ output[2].json.recordId = 1

(***************************************************************************)
(* The credentials check of both nodes (checked under NodeSpec).           *)
(***************************************************************************)
\* C25: with no credentials, or with accessToken and apiKey both empty,
\* execute throws the credentials-required error before any request is
\* issued, and trigger throws before the timer is armed: no timer runs, no
\* poll is made and nothing is emitted.
C25_CredentialsRequired ==
  /\ (execPc # "idle"
        /\ (~credentials.present
              \/ (credentials.accessToken = "" /\ credentials.apiKey = "")))
       => /\ execPc = "threw"
          /\ thrown = <<"Airtable credentials are required. Please configure Airtable credentials.">>
          /\ request = NoRequest
          /\ log = <<>>
          /\ results = <<>>
          /\ output = <<>>
  /\ hist.noToken
       => /\ trig = "threw"
          /\ ~timerArmed
          /\ cycles = <<>>
          /\ emitted = <<>>
  /\ trig = "threw" => hist.noToken

\* execute was given credentials whose two tokens are empty, while records
\* it created before are in the table
C25_Witness ==
  /\ execPc = "threw"
  /\ credentials.present
  /\ credentials.accessToken = ""
  /\ credentials.apiKey = ""
  /\ store # <<>>

(***************************************************************************)
(* resolveValue (checked under ResolveSpec).                               *)
(***************************************************************************)
\* what the parts of a string become when every template is replaced by
\* context[key], or by nothing when the key is absent
RECURSIVE Substituted(_, _)
Substituted(parts, context) ==
  IF parts = <<>> THEN <<>>
  ELSE (IF Head(parts).template
          THEN (IF context[Head(parts).text].present
                  THEN context[Head(parts).text].text ELSE <<>>)
          ELSE Head(parts).text)
       \o Substituted(Tail(parts), context)

\* C27: resolveValue returns a non-string value and a string without {{
\* unchanged; in any other string every {{json.key}} is replaced by
\* context[key], or by the empty string when the key is absent, in one pass,
\* and no other text is changed.
C27_ResolveValueRewrite ==
  tplDone
    => IF ~tplInput.isString \/ ~IncludesBraces(Flatten(tplInput.parts))
         THEN tplResult = ValueOf(tplInput)
         ELSE /\ tplResult.isString
              /\ tplResult.text = Substituted(tplInput.parts, tplContext)

(***************************************************************************)
(* Termination of makeAirtableRequest (checked under LiveSpec).            *)
(***************************************************************************)
\* C24: for every maxRetries >= 0 and every sequence of outcomes the call
\* ends; it has then made at least one and at most maxRetries + 1 attempts
\* and either returns a body or throws an Error classified from a recorded
\* last error.
C24_Terminates ==
  /\ <>(pc = "done")
  /\ [](maxRetries >= 0 => Attempts <= maxRetries + 1)
  /\ []((maxRetries >= 0 /\ pc = "done")
          => /\ Attempts >= 1
             /\ \/ /\ result.type = "return"
                   /\ outcomes[Attempts].kind = "success"
                \/ /\ result.type = "throw"
                   /\ lastError # NoError
                   /\ lastError = outcomes[Attempts]
                   /\ result = Classify(lastError)
                   /\ result.error[1] = "Error")

\* every attempt was rate limited and the call ended by throwing
C24_Witness ==
  /\ pc = "done"
  /\ maxRetries = 2
  /\ Attempts = 3
  /\ result.type = "throw"
  /\ lastError.status = RateLimited

====
